---- MODULE Spec2Model ----
(***************************************************************************)
(* Room-based WebSocket chat relay (src/server.js): the origin gate of the *)
(* upgrade handler, the per-connection handlers (message, pong, close,    *)
(* error), the room directory `rooms` and the heartbeat sweep.            *)
(*                                                                         *)
(* JavaScript values are encoded as strings: NULL and UNDEFINED stand for  *)
(* the values null and undefined, every other string is itself.  Node runs *)
(* each handler to completion, so each handler is one action.              *)
(***************************************************************************)
EXTENDS Integers, FiniteSets, Sequences, TLC

----------------------------------------------------------------------------
(* Bounds of the model *)

\* number of connection slots (WebSocket objects the server ever creates)
NumConns == 2

\* Date.now() at the first event; any value above the cooldown, as the epoch
\* clock is far above ws.lastMessageTime = 0
StartTime == 5000

\* how far the clock advances in a behaviour
MaxElapsed == 1000

\* longest text enumerated over the alphabet of the sanitization specification
MaxTextLen == 2

----------------------------------------------------------------------------
(* Program constants *)

MESSAGE_COOLDOWN_MS == 1000

ALLOWED_ORIGINS == {"https://your-frontend-app.vercel.app", "http://localhost:3000"}

----------------------------------------------------------------------------
(* Value domains *)

NULL == "<null>"
UNDEFINED == "<undefined>"

Conns == 1..NumConns

\* request.headers.origin: absent, empty, the two allow-list entries, a
\* near miss of an entry (trailing slash) and an unrelated origin
Origins == {UNDEFINED, ""} \cup ALLOWED_ORIGINS
           \cup {"http://localhost:3000/", "https://evil.example"}

\* data.room of a join frame: the empty string and two names.  (null, 0 and
\* false are falsy like the empty string and the absent field.)
RoomIds == {"", "lobby", "dev"}

\* data.room in the rate-limit and liveness specifications: the empty string
\* and one name
FewRoomIds == {"", "lobby"}

\* data.room in the specification of frames: field absent, or one name
FrameRoomIds == {UNDEFINED, "lobby"}

\* every key the Map rooms can hold
RoomKeys == RoomIds \cup FewRoomIds \cup FrameRoomIds

\* JavaScript values of payload fields: a string is the sequence of its
\* characters
Str(chars) == [t |-> "string", s |-> chars]
Num(n) == [t |-> "number", n |-> n]
Absent == [t |-> "undefined"]

\* truthiness of a payload field
TruthyValue(v) ==
    CASE v.t = "string" -> v.s # << >>
      [] v.t = "number" -> v.n # 0
      [] OTHER -> FALSE

\* data.payload: absent from the frame, or an object with sender, text and
\* one opaque field
AbsentPayload == [kind |-> "absent"]
Payload(sender, text, imageUrl) ==
    [kind |-> "object", sender |-> sender, text |-> text, imageUrl |-> imageUrl]

PlainPayload == Payload(Str(<<"b", "o", "b">>), Str(<<"h", "i">>), Absent)

\* data.payload of a chat frame: absent, or an object
Payloads == {AbsentPayload, PlainPayload}

\* characters of the enumerated texts: the four escaped ones and the single
\* quote
Alphabet == {"&", "<", ">", "\"", "'"}

\* the texts of the spec's examples, and one that is already escaped
ExampleTexts ==
    { <<"<", "s", "c", "r", "i", "p", "t", ">">>,
      <<"a", " ", "&", " ", "b">>,
      <<"&", "a", "m", "p", ";">> }

Texts == ExampleTexts \cup UNION {[1..k -> Alphabet] : k \in 0..MaxTextLen}

\* a sender and an image URL that contain escapable characters
MarkupSender == Str(<<"<", "b", ">">>)
ImageUrl == Str(<<"/", "u", "?", "a", "&", "b">>)

\* data.payload in the sanitization specification: every text with sender
\* and image URL, a payload without text, and one whose text is a number
TextPayloads ==
    {Payload(MarkupSender, Str(t), ImageUrl) : t \in Texts}
    \cup {Payload(MarkupSender, Absent, ImageUrl), Payload(MarkupSender, Num(5), Absent)}

\* no JSON.stringify(data.payload) was computed
NothingSent == [kind |-> "none"]

\* clock increments between events (ms)
TickSteps == {999, 1000}

\* JavaScript truthiness of the encoded values
Truthy(v) == v \notin {NULL, UNDEFINED, ""}

----------------------------------------------------------------------------
(* State *)

VARIABLES
    conn,       \* per WebSocket: readyState, isAlive, lastMessageTime, roomName
    rooms,      \* the Map rooms: room key -> Set of WebSockets
    now,        \* Date.now()
    missed,     \* history: sweeps each connection has seen since its last pong
    sends,      \* client.send calls made by the last handler, per recipient
    sentPayload, \* the payload serialised into messageString by the last handler
    lastEvent   \* the handler that ran last, its arguments and outcome

vars == <<conn, rooms, now, missed, sends, sentPayload, lastEvent>>

\* readyState; NONE is a slot whose upgrade has not happened yet
NONE == "NONE"
OPEN == "OPEN"
CLOSING == "CLOSING"
CLOSED == "CLOSED"

\* Map operations
MapHas(m, k) == k \in DOMAIN m
MapSet(m, k, v) == [x \in (DOMAIN m) \cup {k} |-> IF x = k THEN v ELSE m[x]]
MapDelete(m, k) == [x \in (DOMAIN m) \ {k} |-> m[x]]

NoSends == [c \in Conns |-> 0]

Event(kind, ws, arg, result) ==
    [kind |-> kind, ws |-> ws, arg |-> arg, result |-> result]

\* the connection handler's initialisation of a new WebSocket
NewConnection ==
    [readyState |-> OPEN, isAlive |-> TRUE, lastMessageTime |-> 0, roomName |-> NULL]

\* wss.clients: sockets whose close event has not been emitted
Clients == {c \in Conns : conn[c].readyState \in {OPEN, CLOSING}}

Init ==
    /\ conn = [c \in Conns |->
                 [readyState |-> NONE, isAlive |-> TRUE,
                  lastMessageTime |-> 0, roomName |-> NULL]]
    /\ rooms = << >>
    /\ now = StartTime
    /\ missed = [c \in Conns |-> 0]
    /\ sends = NoSends
    /\ sentPayload = NothingSent
    /\ lastEvent = Event("init", 0, UNDEFINED, "none")

----------------------------------------------------------------------------
(* Origin gate and admission *)

\* the gate without its "&& origin" conjunct: a request without Origin is rejected
OriginRejectedWhenAbsent(origin) ==
    origin \notin ALLOWED_ORIGINS

\* the test of the upgrade handler: true when the request is rejected
OriginRejected(origin) ==
    (origin \notin ALLOWED_ORIGINS) /\ Truthy(origin)

\* server.on('upgrade') followed by wss.on('connection')
Upgrade(c, origin) ==
    /\ conn[c].readyState = NONE
    /\ \A d \in Conns : d < c => conn[d].readyState # NONE
    /\ IF OriginRejected(origin)
       THEN /\ UNCHANGED <<conn, missed>>
            /\ lastEvent' = Event("upgrade", c, origin, "rejected")
       ELSE /\ conn' = [conn EXCEPT ![c] = NewConnection]
            /\ missed' = [missed EXCEPT ![c] = 0]
            /\ lastEvent' = Event("upgrade", c, origin, "admitted")
    /\ sends' = NoSends
    /\ sentPayload' = NothingSent
    /\ UNCHANGED <<rooms, now>>

----------------------------------------------------------------------------
(* Message handler *)

\* a join branch that leaves ws in its old room
JoinRoomsKeepsOldRoom(ws, room) ==
    LET r2 == IF ~MapHas(rooms, room) THEN MapSet(rooms, room, {}) ELSE rooms
    IN  MapSet(r2, room, r2[room] \cup {ws})

\* rooms after the join branch has run for ws with data.room = room
JoinRooms(ws, room) ==
    LET old == conn[ws].roomName
        r1 == IF Truthy(old) /\ MapHas(rooms, old)
              THEN MapSet(rooms, old, rooms[old] \ {ws})
              ELSE rooms
        r2 == IF ~MapHas(r1, room) THEN MapSet(r1, room, {}) ELSE r1
    IN  MapSet(r2, room, r2[room] \cup {ws})

\* a join that restarts the cooldown of ws
JoinResetsCooldown(ws, room) ==
    /\ ws \in Clients
    /\ rooms' = JoinRooms(ws, room)
    /\ conn' = [conn EXCEPT ![ws].roomName = room, ![ws].lastMessageTime = 0]
    /\ sends' = NoSends
    /\ sentPayload' = NothingSent
    /\ lastEvent' = Event("join", ws, room,
                          IF conn[ws].roomName = room /\ MapHas(rooms, room)
                             /\ ws \in rooms[room]
                          THEN "rejoined" ELSE "joined")
    /\ UNCHANGED <<now, missed>>

\* a frame {"type":"join","room":room}
Join(ws, room) ==
    /\ ws \in Clients
    /\ rooms' = JoinRooms(ws, room)
    /\ conn' = [conn EXCEPT ![ws].roomName = room]
    /\ sends' = NoSends
    /\ sentPayload' = NothingSent
    /\ lastEvent' = Event("join", ws, room,
                          IF conn[ws].roomName = room /\ MapHas(rooms, room)
                             /\ ws \in rooms[room]
                          THEN "rejoined" ELSE "joined")
    /\ UNCHANGED <<now, missed>>

\* String.prototype.replace with a global one-character pattern
RECURSIVE ReplaceAll(_, _, _)
ReplaceAll(chars, ch, entity) ==
    IF chars = << >> THEN << >>
    ELSE (IF Head(chars) = ch THEN entity ELSE <<Head(chars)>>)
         \o ReplaceAll(Tail(chars), ch, entity)

AMP == <<"&", "a", "m", "p", ";">>
LT == <<"&", "l", "t", ";">>
GT == <<"&", "g", "t", ";">>
QUOT == <<"&", "q", "u", "o", "t", ";">>

\* sanitize with the ampersand replaced last: entities are escaped again
sanitizeAmpersandLast(text) ==
    IF text.t # "string" THEN Str(<< >>)
    ELSE Str(ReplaceAll(ReplaceAll(ReplaceAll(ReplaceAll(text.s,
                 "<", LT), ">", GT), "\"", QUOT), "&", AMP))

\* sanitize(text): the four replace calls in the order of the source
sanitize(text) ==
    IF text.t # "string" THEN Str(<< >>)
    ELSE Str(ReplaceAll(ReplaceAll(ReplaceAll(ReplaceAll(text.s,
                 "&", AMP), "<", LT), ">", GT), "\"", QUOT))

\* data.payload after the chat branch has sanitized its text
ChatPayload(payload) ==
    IF TruthyValue(payload.text)
    THEN [payload EXCEPT !.text = sanitize(payload.text)]
    ELSE payload

\* the cooldown test with the elapsed time compared in seconds
RateLimitedInSeconds(ws) ==
    now - conn[ws].lastMessageTime < MESSAGE_COOLDOWN_MS \div 1000

\* the cooldown test of the chat branch: true when the frame is dropped
RateLimited(ws) ==
    now - conn[ws].lastMessageTime < MESSAGE_COOLDOWN_MS

\* the test that guards the fan-out
HasRoom(ws) ==
    Truthy(conn[ws].roomName) /\ MapHas(rooms, conn[ws].roomName)

\* the fan-out without the readyState test
FanOutToEveryMember(ws) ==
    [client \in Conns |-> IF client \in rooms[conn[ws].roomName] THEN 1 ELSE 0]

\* the client.send calls of the fan-out over the sender's room
FanOut(ws) ==
    [client \in Conns |->
        IF client \in rooms[conn[ws].roomName] /\ conn[client].readyState = OPEN
        THEN 1 ELSE 0]

\* the fan-out over wss.clients instead of the sender's room
ChatSendsToAllClients(ws) ==
    [client \in Conns |-> IF conn[client].readyState = OPEN THEN 1 ELSE 0]

\* what an accepted chat frame sends: the guarded fan-out
ChatSends(ws) ==
    IF HasRoom(ws) THEN FanOut(ws) ELSE NoSends

\* a chat branch that records the time only when it broadcasts
ChatStampsOnBroadcast(ws, payload) ==
    /\ ws \in Clients
    /\ IF RateLimited(ws)
       THEN /\ UNCHANGED conn
            /\ sends' = NoSends
            /\ sentPayload' = NothingSent
            /\ lastEvent' = Event("chat", ws, payload, "ratelimited")
       ELSE IF payload.kind = "absent"
            THEN /\ UNCHANGED conn
                 /\ sends' = NoSends
                 /\ sentPayload' = NothingSent
                 /\ lastEvent' = Event("chat", ws, payload, "threw")
            ELSE /\ conn' = IF HasRoom(ws)
                            THEN [conn EXCEPT ![ws].lastMessageTime = now]
                            ELSE conn
                 /\ sends' = ChatSends(ws)
                 /\ sentPayload' = IF HasRoom(ws) THEN ChatPayload(payload)
                                                  ELSE NothingSent
                 /\ lastEvent' = Event("chat", ws, payload,
                                       IF HasRoom(ws) THEN "broadcast" ELSE "noroom")
    /\ UNCHANGED <<rooms, now, missed>>

\* a frame {"type":"chat","payload":payload}
Chat(ws, payload) ==
    /\ ws \in Clients
    /\ IF RateLimited(ws)
       THEN /\ UNCHANGED conn
            /\ sends' = NoSends
            /\ sentPayload' = NothingSent
            /\ lastEvent' = Event("chat", ws, payload, "ratelimited")
       ELSE /\ conn' = [conn EXCEPT ![ws].lastMessageTime = now]
            /\ IF payload.kind = "absent"
               THEN \* data.payload.text throws, the catch logs it
                    /\ sends' = NoSends
                    /\ sentPayload' = NothingSent
                    /\ lastEvent' = Event("chat", ws, payload, "threw")
               ELSE /\ sends' = ChatSends(ws)
                    /\ sentPayload' = IF HasRoom(ws) THEN ChatPayload(payload)
                                                     ELSE NothingSent
                    /\ lastEvent' = Event("chat", ws, payload,
                                          IF HasRoom(ws) THEN "broadcast" ELSE "noroom")
    /\ UNCHANGED <<rooms, now, missed>>

\* a handler that answers a frame of another type with an error message
OtherTypeAnswered(ws) ==
    /\ ws \in Clients
    /\ sends' = [NoSends EXCEPT ![ws] = 1]
    /\ sentPayload' = NothingSent
    /\ lastEvent' = Event("other", ws, UNDEFINED, "ignored")
    /\ UNCHANGED <<conn, rooms, now, missed>>

\* a frame that decodes to an object of any other type
OtherType(ws) ==
    /\ ws \in Clients
    /\ sends' = NoSends
    /\ sentPayload' = NothingSent
    /\ lastEvent' = Event("other", ws, UNDEFINED, "ignored")
    /\ UNCHANGED <<conn, rooms, now, missed>>

\* a frame JSON.parse rejects
InvalidJson(ws) ==
    /\ ws \in Clients
    /\ sends' = NoSends
    /\ sentPayload' = NothingSent
    /\ lastEvent' = Event("invalid", ws, UNDEFINED, "threw")
    /\ UNCHANGED <<conn, rooms, now, missed>>

----------------------------------------------------------------------------
(* Liveness: pong handler and heartbeat sweep *)

Pong(ws) ==
    /\ ws \in Clients
    /\ conn' = [conn EXCEPT ![ws].isAlive = TRUE]
    /\ missed' = [missed EXCEPT ![ws] = 0]
    /\ sends' = NoSends
    /\ sentPayload' = NothingSent
    /\ lastEvent' = Event("pong", ws, UNDEFINED, "alive")
    /\ UNCHANGED <<rooms, now>>

\* a sweep without a period of grace: it clears the flag and terminates at once
HeartbeatEachNoGrace(w) ==
    [w EXCEPT !.isAlive = FALSE, !.readyState = CLOSING]

\* what the sweep does to one client
HeartbeatEach(w) ==
    IF w.isAlive = FALSE
    THEN [w EXCEPT !.readyState = CLOSING]
    ELSE [w EXCEPT !.isAlive = FALSE]

Heartbeat ==
    /\ Clients # {}
    /\ conn' = [c \in Conns |-> IF c \in Clients THEN HeartbeatEach(conn[c]) ELSE conn[c]]
    /\ missed' = [c \in Conns |->
                    IF c \in Clients /\ missed[c] < 2 THEN missed[c] + 1 ELSE missed[c]]
    /\ sends' = NoSends
    /\ sentPayload' = NothingSent
    /\ lastEvent' = Event("heartbeat", 0, UNDEFINED, "swept")
    /\ UNCHANGED <<rooms, now>>

----------------------------------------------------------------------------
(* Close and error *)

\* the peer closes or the socket drops: the transport leaves the open state
TransportClose(ws) ==
    /\ conn[ws].readyState = OPEN
    /\ conn' = [conn EXCEPT ![ws].readyState = CLOSING]
    /\ sends' = NoSends
    /\ sentPayload' = NothingSent
    /\ lastEvent' = Event("transportClose", ws, UNDEFINED, "closing")
    /\ UNCHANGED <<rooms, now, missed>>

\* ws.on('error'): logs; the library closes the socket
OnError(ws) ==
    /\ conn[ws].readyState = OPEN
    /\ conn' = [conn EXCEPT ![ws].readyState = CLOSING]
    /\ sends' = NoSends
    /\ sentPayload' = NothingSent
    /\ lastEvent' = Event("error", ws, UNDEFINED, "closing")
    /\ UNCHANGED <<rooms, now, missed>>

\* a close handler that deletes the room whenever a member leaves
CloseRoomsDeletesRoom(ws) ==
    LET name == conn[ws].roomName IN
    IF Truthy(name) /\ MapHas(rooms, name) THEN MapDelete(rooms, name) ELSE rooms

\* rooms after the close handler has run for ws
CloseRooms(ws) ==
    LET name == conn[ws].roomName IN
    IF Truthy(name) /\ MapHas(rooms, name)
    THEN LET roomClients == rooms[name] \ {ws} IN
         IF Cardinality(roomClients) = 0
         THEN MapDelete(rooms, name)
         ELSE MapSet(rooms, name, roomClients)
    ELSE rooms

\* ws.on('close')
OnClose(ws) ==
    /\ conn[ws].readyState = CLOSING
    /\ rooms' = CloseRooms(ws)
    /\ conn' = [conn EXCEPT ![ws].readyState = CLOSED]
    /\ sends' = NoSends
    /\ sentPayload' = NothingSent
    /\ lastEvent' = Event("close", ws, UNDEFINED, "closed")
    /\ UNCHANGED <<now, missed>>

----------------------------------------------------------------------------
(* Clock *)

Tick(d) ==
    /\ now + d <= StartTime + MaxElapsed
    /\ now' = now + d
    /\ sends' = NoSends
    /\ sentPayload' = NothingSent
    /\ lastEvent' = Event("tick", 0, UNDEFINED, "none")
    /\ UNCHANGED <<conn, rooms, missed>>

----------------------------------------------------------------------------

\* The relay with the clock and the monitor at rest: admission through the
\* origin gate, join and chat frames, close and error.
Next ==
    \/ \E c \in Conns, origin \in Origins : Upgrade(c, origin)
    \/ \E ws \in Conns, room \in RoomIds : Join(ws, room)
    \/ \E ws \in Conns, payload \in Payloads : Chat(ws, payload)
    \/ \E ws \in Conns : TransportClose(ws)
    \/ \E ws \in Conns : OnError(ws)
    \/ \E ws \in Conns : OnClose(ws)

Spec == Init /\ [][Next]_vars

\* The relay with a running clock: joins, chats and closes of clients that
\* send no Origin header.
NextRate ==
    \/ \E c \in Conns : Upgrade(c, UNDEFINED)
    \/ \E ws \in Conns, room \in FewRoomIds : Join(ws, room)
    \/ \E ws \in Conns, payload \in Payloads : Chat(ws, payload)
    \/ \E ws \in Conns : TransportClose(ws)
    \/ \E ws \in Conns : OnClose(ws)
    \/ \E d \in TickSteps : Tick(d)

SpecRate == Init /\ [][NextRate]_vars

\* The relay with the monitor running: joins, frames without effect, pongs,
\* sweeps, errors and closes.
NextLive ==
    \/ \E c \in Conns : Upgrade(c, UNDEFINED)
    \/ \E ws \in Conns, room \in FewRoomIds : Join(ws, room)
    \/ \E ws \in Conns : OtherType(ws)
    \/ \E ws \in Conns : InvalidJson(ws)
    \/ \E ws \in Conns : Pong(ws)
    \/ Heartbeat
    \/ \E ws \in Conns : TransportClose(ws)
    \/ \E ws \in Conns : OnError(ws)
    \/ \E ws \in Conns : OnClose(ws)

SpecLive == Init /\ [][NextLive]_vars

\* The relay fed every kind of frame, malformed ones included: join frames
\* with and without a room, chat frames with and without a payload, frames
\* of another type and frames that do not decode.
NextFrames ==
    \/ \E c \in Conns : Upgrade(c, UNDEFINED)
    \/ \E ws \in Conns, room \in FrameRoomIds : Join(ws, room)
    \/ \E ws \in Conns, payload \in Payloads : Chat(ws, payload)
    \/ \E ws \in Conns : OtherType(ws)
    \/ \E ws \in Conns : InvalidJson(ws)
    \/ \E ws \in Conns : TransportClose(ws)
    \/ \E ws \in Conns : OnClose(ws)

SpecFrames == Init /\ [][NextFrames]_vars

\* The relay relaying payloads: two clients of one room chat with every
\* payload.
NextText ==
    \/ \E c \in {1, 2} : Upgrade(c, UNDEFINED)
    \/ \E ws \in Conns : Join(ws, "lobby")
    \/ \E ws \in Conns, payload \in TextPayloads : Chat(ws, payload)
    \/ \E ws \in Conns : TransportClose(ws)
    \/ \E ws \in Conns : OnClose(ws)

SpecText == Init /\ [][NextText]_vars

\* The relay with chats going on while connections leave: joins, chats,
\* sweeps, transport closes, errors and close handlers.
NextWindow ==
    \/ \E c \in Conns : Upgrade(c, UNDEFINED)
    \/ \E ws \in Conns, room \in FewRoomIds : Join(ws, room)
    \/ \E ws \in Conns : Chat(ws, PlainPayload)
    \/ Heartbeat
    \/ \E ws \in Conns : TransportClose(ws)
    \/ \E ws \in Conns : OnError(ws)
    \/ \E ws \in Conns : OnClose(ws)

SpecWindow == Init /\ [][NextWindow]_vars

TypeOK ==
    /\ DOMAIN rooms \subseteq RoomKeys
    /\ \A k \in DOMAIN rooms : rooms[k] \subseteq Conns
    /\ \A c \in Conns : conn[c].readyState \in {NONE, OPEN, CLOSING, CLOSED}
    /\ now \in StartTime..(StartTime + MaxElapsed)

----------------------------------------------------------------------------
(* Vocabulary of the properties *)

\* the rooms whose member set holds c
RoomsOf(c) == {k \in DOMAIN rooms : c \in rooms[k]}

\* the last handler was a frame of this kind on some connection
LastWas(kind) == lastEvent.kind = kind

\* the last handler was a chat frame that passed the cooldown and decoded fully
AcceptedChat == LastWas("chat") /\ lastEvent.result \in {"broadcast", "noroom"}

----------------------------------------------------------------------------
(* Room directory *)

\* C1: for every connection that is not closed and every room r, the
\* connection is in the member set of r if and only if its room field is r.
C1_RoomFieldAgreesWithDirectory ==
    \A c \in Clients : \A r \in RoomKeys :
        (r \in RoomsOf(c)) <=> (conn[c].roomName = r)

\* C2: every room present in the directory has at least one member.
C2_NoEmptyRoom ==
    \A k \in DOMAIN rooms : rooms[k] # {}

\* C3: after a connection that is already in a room processes join(roomB), it
\* is a member of roomB's member set and of no other room's member set.
C3_JoinMovesToExactlyOneRoom ==
    [][\A ws \in Conns :
          (/\ lastEvent'.kind = "join"
           /\ lastEvent'.ws = ws
           /\ conn[ws].roomName # NULL)
          => (\A k \in DOMAIN rooms' : (ws \in rooms'[k]) <=> (k = lastEvent'.arg))]_vars

\* C4: a connection whose close handler has run is in no room's member set.
C4_ClosedConnectionInNoRoom ==
    \A c \in Conns : conn[c].readyState = CLOSED => RoomsOf(c) = {}

----------------------------------------------------------------------------
(* Chat: rate limit and fan-out *)

\* C5: a well-formed chat frame received from a connection that is in a room
\* is broadcast if and only if at least 1000 ms have passed since the
\* connection's last accepted chat, and it leaves the lastMessageTime of
\* every other connection unchanged.
C5_RateLimitPerConnection ==
    [][\A ws \in Conns :
          (/\ lastEvent'.kind = "chat"
           /\ lastEvent'.ws = ws
           /\ lastEvent'.arg.kind # "absent"
           /\ RoomsOf(ws) # {})
          => /\ (now - conn[ws].lastMessageTime < 1000) => sends' = NoSends
             /\ (now - conn[ws].lastMessageTime >= 1000)
                   => (lastEvent'.result = "broadcast"
                       /\ (conn[ws].readyState = OPEN => sends'[ws] = 1))
             /\ \A d \in Conns \ {ws} :
                   conn'[d].lastMessageTime = conn[d].lastMessageTime]_vars

\* C6: an accepted chat from a connection in room r is sent exactly once to
\* every member of r whose transport is open, the sender included, and to no
\* member whose transport is not open.
C6_BroadcastReachesEveryOpenMember ==
    (AcceptedChat /\ RoomsOf(lastEvent.ws) # {})
        => \E r \in RoomsOf(lastEvent.ws) :
              /\ conn[lastEvent.ws].roomName = r
              /\ \A m \in rooms[r] :
                    sends[m] = IF conn[m].readyState = OPEN THEN 1 ELSE 0

\* C7: a chat frame from a connection that is in no room sends nothing to
\* any connection, raises no error for a well-formed frame, and leaves the
\* connection's transport state and the directory as they were.
C7_ChatWithoutRoomSendsNothing ==
    [][\A ws \in Conns :
          (/\ lastEvent'.kind = "chat"
           /\ lastEvent'.ws = ws
           /\ RoomsOf(ws) = {})
          => /\ sends' = NoSends
             /\ lastEvent'.arg.kind # "absent" => lastEvent'.result \in {"noroom", "ratelimited"}
             /\ conn'[ws].readyState = conn[ws].readyState
             /\ rooms' = rooms]_vars

\* a connection that never joined has chatted past the cooldown: nothing sent
C7_Witness ==
    /\ LastWas("chat")
    /\ lastEvent.result = "noroom"
    /\ RoomsOf(lastEvent.ws) = {}
    /\ conn[lastEvent.ws].roomName = NULL
    /\ conn[lastEvent.ws].readyState = OPEN
    /\ conn[lastEvent.ws].lastMessageTime = now
    /\ \E d \in Conns \ {lastEvent.ws} : conn[d].readyState = OPEN /\ RoomsOf(d) # {}
    /\ sends = NoSends
    /\ sentPayload = NothingSent

\* C8: when the close handler runs for the only member of a room, the room is
\* absent from the directory afterwards; and a join to a name whose room is
\* absent or has no member still connected yields a member set holding the
\* joining connection alone.
C8_LastMemberLeavesNoStaleRoom ==
    [][/\ \A ws \in Conns : \A r \in DOMAIN rooms :
             (/\ lastEvent'.kind = "close"
              /\ lastEvent'.ws = ws
              /\ conn[ws].readyState # CLOSED
              /\ rooms[r] = {ws})
             => r \notin DOMAIN rooms'
       /\ \A ws \in Conns :
             (/\ lastEvent'.kind = "join"
              /\ lastEvent'.ws = ws
              /\ (lastEvent'.arg \in DOMAIN rooms
                     => \A m \in rooms[lastEvent'.arg] : conn[m].readyState = CLOSED))
             => rooms'[lastEvent'.arg] = {ws}]_vars

----------------------------------------------------------------------------
(* Liveness monitor *)

\* C9: a connection that has seen two sweeps since its last pong (or since
\* its admission) is no longer open, and once its close handler has run it
\* is not in the member set of its room.
C9_UnresponsiveConnectionEvicted ==
    \A c \in Conns :
        missed[c] >= 2 =>
            /\ conn[c].readyState # OPEN
            /\ (conn[c].readyState = CLOSED /\ conn[c].roomName \in DOMAIN rooms)
                  => c \notin rooms[conn[c].roomName]

----------------------------------------------------------------------------
(* Origin gate *)

\* the claim's reading of the policy: an Origin that is present, non-empty
\* and equal to no allow-list entry
ForeignOrigin(origin) ==
    /\ origin # UNDEFINED
    /\ origin # ""
    /\ \A allowed \in ALLOWED_ORIGINS : origin # allowed

\* C10: an upgrade request with a present Origin that equals no allow-list
\* entry is rejected and changes no connection and no room; a request with an
\* absent or empty Origin, or one equal to an entry, yields an open connection
\* with isAlive = true, lastMessageTime = 0 and no room.
C10_OriginGate ==
    [][\A c \in Conns :
          (lastEvent'.kind = "upgrade" /\ lastEvent'.ws = c /\ conn[c].readyState = NONE)
          => IF ForeignOrigin(lastEvent'.arg)
             THEN /\ lastEvent'.result = "rejected"
                  /\ conn' = conn
                  /\ rooms' = rooms
             ELSE /\ lastEvent'.result = "admitted"
                  /\ conn'[c] = [readyState |-> OPEN, isAlive |-> TRUE,
                                 lastMessageTime |-> 0, roomName |-> NULL]
                  /\ \A d \in Conns \ {c} : conn'[d] = conn[d]]_vars

\* a near miss of an allow-list entry was rejected while another client,
\* admitted without an Origin header, is connected
C10_Witness ==
    /\ LastWas("upgrade")
    /\ lastEvent.arg = "http://localhost:3000/"
    /\ lastEvent.result = "rejected"
    /\ conn[lastEvent.ws].readyState = NONE
    /\ \E d \in Conns : conn[d].readyState = OPEN

----------------------------------------------------------------------------
(* Frames without effect *)

\* the last handler ran on a frame that is malformed: one that does not
\* decode, a join without a room, or a chat without a payload
MalformedFrame(e) ==
    \/ e.kind = "invalid"
    \/ e.kind = "join" /\ e.arg = UNDEFINED
    \/ e.kind = "chat" /\ e.arg.kind = "absent"

\* C11: a malformed frame leaves every connection (transport state, room,
\* lastMessageTime) and the room directory unchanged and sends nothing.
C11_MalformedFrameDropped ==
    [][MalformedFrame(lastEvent')
          => /\ conn' = conn
             /\ rooms' = rooms
             /\ sends' = NoSends]_vars

----------------------------------------------------------------------------
(* Sanitization *)

\* the entity of one character in a single pass over the text
Escaped(ch) ==
    CASE ch = "&" -> <<"&", "a", "m", "p", ";">>
      [] ch = "<" -> <<"&", "l", "t", ";">>
      [] ch = ">" -> <<"&", "g", "t", ";">>
      [] ch = "\"" -> <<"&", "q", "u", "o", "t", ";">>
      [] OTHER -> <<ch>>

RECURSIVE EscapeOnce(_)
EscapeOnce(chars) ==
    IF chars = << >> THEN << >> ELSE Escaped(Head(chars)) \o EscapeOnce(Tail(chars))

\* C12: in every broadcast payload a string text is the single-pass escape of
\* the received text (each &, <, > and " replaced by its entity, nothing
\* escaped twice), sender and the other fields are the received ones, and a
\* payload received without text is sent without text.
C12_SanitizedTextOnly ==
    (LastWas("chat") /\ lastEvent.result = "broadcast")
        => /\ sentPayload.kind = "object"
           /\ sentPayload.sender = lastEvent.arg.sender
           /\ sentPayload.imageUrl = lastEvent.arg.imageUrl
           /\ lastEvent.arg.text.t = "string"
                 => sentPayload.text = Str(EscapeOnce(lastEvent.arg.text.s))
           /\ lastEvent.arg.text.t = "undefined"
                 => sentPayload.text.t = "undefined"

\* <script> was broadcast as &lt;script&gt; with its sender and image URL intact
C12_Witness ==
    /\ LastWas("chat")
    /\ lastEvent.result = "broadcast"
    /\ lastEvent.arg.text = Str(<<"<", "s", "c", "r", "i", "p", "t", ">">>)
    /\ sentPayload.text = Str(<<"&", "l", "t", ";", "s", "c", "r", "i", "p", "t", "&", "g", "t", ";">>)
    /\ sentPayload.sender = MarkupSender
    /\ sentPayload.imageUrl = ImageUrl
    /\ sends[lastEvent.ws] = 1

----------------------------------------------------------------------------
(* Monitor *)

\* C13: a sweep terminates an open connection only if it finds isAlive false,
\* which requires an earlier sweep since the connection's admission and since
\* its last pong.
C13_TerminatedOnlyWhenFoundDead ==
    [][\A c \in Conns :
          (/\ lastEvent'.kind = "heartbeat"
           /\ conn[c].readyState = OPEN
           /\ conn'[c].readyState # OPEN)
          => (conn[c].isAlive = FALSE /\ missed[c] >= 1)]_vars

\* one sweep terminated a connection found dead and spared one probed once
C13_Witness ==
    /\ LastWas("heartbeat")
    /\ \E c \in Conns : /\ conn[c].readyState = OPEN
                        /\ conn[c].isAlive = FALSE
                        /\ missed[c] = 1
    /\ \E d \in Conns : /\ conn[d].readyState = CLOSING
                        /\ missed[d] = 2

----------------------------------------------------------------------------
(* Connections that leave *)

\* a connection whose transport has left the open state and whose close
\* handler has not run is still in the member set of its room
ClosingStillMember ==
    \A c \in Conns :
        (conn[c].readyState = CLOSING /\ conn[c].roomName # NULL)
            => (conn[c].roomName \in DOMAIN rooms /\ c \in rooms[conn[c].roomName])

\* C14: while a member's transport has left the open state and its close
\* handler has not run, the member is still in its room's member set; a
\* broadcast to the room sends nothing to it, sends once to every open
\* member, changes no connection other than the sender's lastMessageTime and
\* leaves the directory unchanged.
C14_BroadcastSkipsClosingMember ==
    [][/\ ClosingStillMember'
       /\ \A ws \in Conns :
             (/\ lastEvent'.kind = "chat"
              /\ lastEvent'.ws = ws
              /\ lastEvent'.result = "broadcast")
             => /\ \A m \in rooms[conn[ws].roomName] :
                      sends'[m] = IF conn[m].readyState = OPEN THEN 1 ELSE 0
                /\ \A d \in Conns \ {ws} : conn'[d] = conn[d]
                /\ conn'[ws].readyState = conn[ws].readyState
                /\ rooms' = rooms]_vars

\* a broadcast skipped a member terminated by the monitor whose close handler
\* had not run, and reached the open sender
C14_Witness ==
    /\ LastWas("chat")
    /\ lastEvent.result = "broadcast"
    /\ conn[lastEvent.ws].readyState = OPEN
    /\ sends[lastEvent.ws] = 1
    /\ \E m \in rooms[conn[lastEvent.ws].roomName] :
          /\ conn[m].readyState = CLOSING
          /\ missed[m] = 2
          /\ sends[m] = 0

\* C15: a transport close, an error or a close handler of one connection
\* leaves every other connection as it was, keeps every other connection's
\* memberships and leaves the rooms it is not a member of unchanged; a sweep
\* takes a connection out of the open state only if that connection's own
\* isAlive is false, and changes no room, no lastMessageTime and no roomName.
C15_CloseAffectsNoOtherConnection ==
    [][/\ \A ws \in Conns :
             (lastEvent'.kind \in {"transportClose", "error", "close"} /\ lastEvent'.ws = ws)
             => /\ \A d \in Conns \ {ws} : conn'[d] = conn[d]
                /\ \A d \in Conns \ {ws} :
                      {k \in DOMAIN rooms' : d \in rooms'[k]} = RoomsOf(d)
                /\ \A k \in DOMAIN rooms :
                      ws \notin rooms[k] => (k \in DOMAIN rooms' /\ rooms'[k] = rooms[k])
       /\ lastEvent'.kind = "heartbeat"
             => /\ rooms' = rooms
                /\ \A d \in Conns :
                      /\ conn'[d].lastMessageTime = conn[d].lastMessageTime
                      /\ conn'[d].roomName = conn[d].roomName
                      /\ conn'[d].readyState # conn[d].readyState
                            => conn[d].isAlive = FALSE]_vars

\* the close handler of an evicted member of lobby has run while another
\* member of lobby is open and has chatted
C15_Witness ==
    /\ LastWas("close")
    /\ conn[lastEvent.ws].roomName = "lobby"
    /\ missed[lastEvent.ws] = 2
    /\ "lobby" \in DOMAIN rooms
    /\ \E d \in Conns \ {lastEvent.ws} :
          /\ conn[d].readyState = OPEN
          /\ conn[d].lastMessageTime = now
          /\ rooms["lobby"] = {d}

----------------------------------------------------------------------------
(* Frames without effect, isolation and the cooldown *)

\* C16: a chat frame that arrives less than MESSAGE_COOLDOWN_MS after the
\* connection's lastMessageTime changes no connection (lastMessageTime and
\* roomName included), leaves the directory unchanged and sends nothing.
C16_RateLimitedChatChangesNothing ==
    [][\A ws \in Conns :
          (/\ lastEvent'.kind = "chat"
           /\ lastEvent'.ws = ws
           /\ now - conn[ws].lastMessageTime < MESSAGE_COOLDOWN_MS)
          => (conn' = conn /\ rooms' = rooms /\ sends' = NoSends)]_vars

\* a chat with a payload was dropped 999 ms after the sender's last accepted
\* chat, the sender being in lobby with another open member
C16_Witness ==
    /\ LastWas("chat")
    /\ lastEvent.arg.kind # "absent"
    /\ now - conn[lastEvent.ws].lastMessageTime = MESSAGE_COOLDOWN_MS - 1
    /\ conn[lastEvent.ws].readyState = OPEN
    /\ conn[lastEvent.ws].roomName = "lobby"
    /\ "lobby" \in DOMAIN rooms
    /\ \E d \in rooms["lobby"] \ {lastEvent.ws} : conn[d].readyState = OPEN
    /\ sends = NoSends

\* C17: a frame of a type other than join and chat sends nothing and changes
\* neither the directory nor any field of any connection (readyState,
\* roomName, isAlive, lastMessageTime).
C17_OtherTypeIgnored ==
    [][lastEvent'.kind = "other"
          => (conn' = conn /\ rooms' = rooms /\ sends' = NoSends)]_vars

\* a frame of another type came from an open member of lobby that has
\* chatted, with another open member in lobby
C17_Witness ==
    /\ LastWas("other")
    /\ conn[lastEvent.ws].readyState = OPEN
    /\ conn[lastEvent.ws].roomName = "lobby"
    /\ conn[lastEvent.ws].lastMessageTime = now
    /\ "lobby" \in DOMAIN rooms
    /\ \E d \in rooms["lobby"] \ {lastEvent.ws} : conn[d].readyState = OPEN
    /\ sends = NoSends

\* C18: a chat is sent only to open connections whose roomName is the
\* sender's roomName at the time of the broadcast.
C18_RoomIsolation ==
    LastWas("chat")
        => \A m \in Conns :
              sends[m] > 0
                  => /\ conn[m].readyState = OPEN
                     /\ conn[m].roomName = conn[lastEvent.ws].roomName

\* a broadcast in lobby reached the sender and not an open connection that is
\* in dev
C18_Witness ==
    /\ LastWas("chat")
    /\ lastEvent.result = "broadcast"
    /\ conn[lastEvent.ws].roomName = "lobby"
    /\ sends[lastEvent.ws] = 1
    /\ \E d \in Conns \ {lastEvent.ws} :
          /\ conn[d].readyState = OPEN
          /\ conn[d].roomName = "dev"
          /\ sends[d] = 0

\* C19: a chat with a payload that passes the cooldown test on a connection
\* without a room sets lastMessageTime to the current time and sends nothing;
\* a chat of a connection in a room that arrives less than
\* MESSAGE_COOLDOWN_MS after its lastMessageTime sends nothing.
C19_CooldownConsumedBeforeRoomCheck ==
    [][\A ws \in Conns :
          (lastEvent'.kind = "chat" /\ lastEvent'.ws = ws)
          => /\ (/\ now - conn[ws].lastMessageTime >= MESSAGE_COOLDOWN_MS
                 /\ lastEvent'.arg.kind # "absent"
                 /\ conn[ws].roomName = NULL)
                => (conn'[ws].lastMessageTime = now /\ sends' = NoSends)
             /\ (/\ now - conn[ws].lastMessageTime < MESSAGE_COOLDOWN_MS
                 /\ conn[ws].roomName # NULL)
                => (conn'[ws].lastMessageTime = conn[ws].lastMessageTime
                    /\ sends' = NoSends)]_vars

\* a chat of a connection without a room passed the cooldown test after the
\* clock had advanced: it set lastMessageTime and nothing was sent
C19_Witness ==
    /\ LastWas("chat")
    /\ lastEvent.result = "noroom"
    /\ conn[lastEvent.ws].roomName = NULL
    /\ now > StartTime
    /\ conn[lastEvent.ws].lastMessageTime = now
    /\ sends = NoSends

\* C20: a join of the room the connection is already a member of leaves the
\* directory and every field of every connection unchanged.
C20_RejoinIdempotent ==
    [][\A ws \in Conns :
          (/\ lastEvent'.kind = "join"
           /\ lastEvent'.ws = ws
           /\ conn[ws].roomName = lastEvent'.arg
           /\ MapHas(rooms, lastEvent'.arg)
           /\ ws \in rooms[lastEvent'.arg])
          => (rooms' = rooms /\ conn' = conn)]_vars

\* a member of lobby that has chatted joined lobby again, another connection
\* being a member of lobby too
C20_Witness ==
    /\ LastWas("join")
    /\ lastEvent.result = "rejoined"
    /\ lastEvent.arg = "lobby"
    /\ conn[lastEvent.ws].lastMessageTime = now
    /\ \E d \in Conns \ {lastEvent.ws} : rooms["lobby"] = {lastEvent.ws, d}

====
